---- MODULE Spec2Model ----
(***************************************************************************)
(* RangPic: the random-image server of src/main.go.                        *)
(*                                                                         *)
(* Strings that the code takes apart (record locations, file names) are    *)
(* sequences of the pieces between "/" characters, so "/local/b.webp" is   *)
(* <<"", "local", "b.webp">> and "https://x/a.webp" is                     *)
(* <<"https:", "", "x", "a.webp">>.  Absolute file-system paths are the    *)
(* sequences of their cleaned components: "/app/local_images" is           *)
(* <<"app", "local_images">>.  Messages written in Chinese in the source   *)
(* are given in English.                                                   *)
(***************************************************************************)
EXTENDS Integers, Sequences, FiniteSets, TLC

\* ------------------------------------------------------------------ bounds
\* Number of rows the images table's SERIAL sequence may hand out.
MaxId == 2
\* Number of session tokens uuid.NewString() hands out.
MaxTokens == 1
\* Number of request tasks that run admin handlers at the same time.
NumTasks == 3

\* ------------------------------------------------------- program constants
\* const localImagesPath = "/app/local_images"
localImagesPath == <<"app", "local_images">>

\* net/http status codes used by the handlers
StatusOK == 200
StatusMovedPermanently == 301
StatusFound == 302
StatusBadRequest == 400
StatusForbidden == 403
StatusNotFound == 404
StatusMethodNotAllowed == 405
StatusInternalServerError == 500
StatusBadGateway == 502

\* The header values the handlers set.
NoCacheValue == "no-cache, no-store, must-revalidate"
JSONType == "application/json; charset=utf-8"
TextPlain == "text/plain; charset=utf-8"
TextHTML == "text/html; charset=utf-8"

\* --------------------------------------------------------------- universe
\* Record locations the administrator may store.
LocRemote == <<"https:", "", "x", "a.webp">>
LocLocal == <<"", "local", "b.webp">>
LocTraversal == <<"", "local", "..", "..", "etc", "passwd">>
Locations == {LocRemote, LocLocal, LocTraversal}

\* Tags, listed in the order the database collation sorts them.
TagOrder == <<"Desktop", "desktop", "mobile">>
AllTags == {TagOrder[i] : i \in DOMAIN TagOrder}

\* The ?tag= values of a request; "" is what Query().Get returns when absent.
TagQueries == {"", "desktop", "mobile"}

\* The file system at start: the local root, one image in it, one file
\* outside it.  Directories are fixed; regular files are the variable files.
Dirs == {<<>>, <<"app">>, localImagesPath, <<"etc">>}
FileLocal == <<"app", "local_images", "b.webp">>
FileOutside == <<"etc", "passwd">>
InitFiles == {FileLocal, FileOutside}

\* ---------------------------------------------------------------- helpers
\* type Image struct { ID int; URL string; Tags []string }; the zero value.
NoImage == [ID |-> 0, URL |-> <<>>, Tags |-> <<>>]

\* error values: "" is nil.
Nil == ""
\* fmt.Errorf("没有找到匹配的图片")
ErrNoMatch == "no matching image found"
\* any other error of dbpool.QueryRow(...).Scan
ErrStorage == "storage error"

\* http.Header of a response, with "" for a header that is not set
\* (Header.Get returns "" for it).
NoHeader ==
    [ContentType |-> "", CacheControl |-> "", Pragma |-> "", Expires |-> "",
     Location |-> "", SetCookie |-> 0]

\* Body of a response that has none.  kind is one of "none", "error" (the
\* text msg, with the number code formatted into it when code > 0), "file"
\* (the contents of the file at path), "upstream" (the bytes of the upstream
\* body, all of them iff complete), "image_json" (the JSON encoding of img),
\* "tags_json" (the JSON encoding of tags, the JSON value null iff null) and
\* "redirect" (the page of a redirect).
NoBody ==
    [kind |-> "none", path |-> <<>>, msg |-> "", code |-> 0, img |-> NoImage,
     tags |-> <<>>, null |-> FALSE, complete |-> TRUE]

\* An http.ResponseWriter nothing was written to: status 0 until WriteHeader.
NoResponse == [status |-> 0, header |-> NoHeader, body |-> NoBody]

\* *http.Response of httpClient.Get, before the call.
NoResp == [got |-> FALSE, StatusCode |-> 0, ContentType |-> ""]

\* ------------------------------------------------------------ path strings
\* strings.HasPrefix(url, "/local/")
HasLocalPrefix(url) == Len(url) >= 3 /\ url[1] = "" /\ url[2] = "local"

\* strings.TrimPrefix(url, "/local/"), for a url that has the prefix
TrimLocalPrefix(url) == SubSeq(url, 3, Len(url))

\* filepath.Clean of the absolute path made of the pieces segs: empty pieces
\* and "." are dropped, ".." removes the component before it and is dropped
\* at the root.
RECURSIVE CleanAbs(_, _)
CleanAbs(segs, acc) ==
    IF segs = <<>> THEN acc
    ELSE LET h == Head(segs)
             t == Tail(segs)
         IN  IF h = "" \/ h = "." THEN CleanAbs(t, acc)
             ELSE IF h = ".."
                  THEN CleanAbs(t, IF acc = <<>> THEN <<>>
                                   ELSE SubSeq(acc, 1, Len(acc) - 1))
                  ELSE CleanAbs(t, Append(acc, h))

\* filepath.Join(root, name) for an absolute root
filepathJoin(root, name) == CleanAbs(root \o name, <<>>)

\* Whether the absolute path p is root or lies beneath it.
IsUnder(root, p) == Len(p) >= Len(root) /\ SubSeq(p, 1, Len(root)) = root

\* net/http containsDotDot: some piece of the path is ".."
containsDotDot(path) == \E i \in DOMAIN path : path[i] = ".."

\* r.URL.Path of a request routed to randomImageProxyHandler: the pattern
\* "/random-image" has no trailing slash, so it matches this path only.
RandomImagePath == <<"", "random-image">>

\* ------------------------------------------------------------ catalog query
\* tags @> ARRAY[$1]: the array holds an element equal to t.
TagsContain(tags, t) == \E i \in DOMAIN tags : tags[i] = t

\* A query that forgets its WHERE clause.
CandidatesIgnoringTag(cat, tagQ) == cat

\* The rows the query of chooseRandomImage ranges over.
Candidates(cat, tagQ) ==
    IF tagQ = "" THEN cat ELSE {r \in cat : TagsContain(r.Tags, tagQ)}

\* chooseRandomImage: every (img, err) it may return on catalog cat.  The
\* query may fail for a reason of the store whatever the catalog holds.
chooseRandomImage(cat, tagQ) ==
    LET rows == Candidates(cat, tagQ)
    IN  {[img |-> NoImage, err |-> ErrStorage]}
        \cup (IF rows = {} THEN {[img |-> NoImage, err |-> ErrNoMatch]}
              ELSE {[img |-> r, err |-> Nil] : r \in rows})

\* ------------------------------------------------------------ net/http
\* http.Error(w, msg, code); code > 0 in fmtCode is a number formatted into msg.
httpError(rw, msg, fmtCode, code) ==
    [rw EXCEPT !.status = code,
               !.header.ContentType = TextPlain,
               !.body = [NoBody EXCEPT !.kind = "error", !.msg = msg, !.code = fmtCode]]

\* One type for every file, whatever its name.
FileContentTypeFixed(p) == "image/webp"

\* mime.TypeByExtension of the file's name, or what sniffing the contents
\* gives for a name without a known extension.
FileContentType(p) ==
    IF p # <<>> /\ p[Len(p)] = "b.webp" THEN "image/webp"
    ELSE IF p # <<>> /\ p[Len(p)] = "c.png" THEN "image/png"
    ELSE TextPlain

\* What opening a path may give: "notexist" when nothing is there, and else
\* the file or one of the failures of the file system.
OpenOutcomes(fs, p) ==
    IF p \in fs \cup Dirs THEN {"ok", "permission", "io"} ELSE {"notexist"}

\* http.ServeFile(w, r, name) for a request without conditional or range
\* headers, whose path is urlPath, when opening name gives outcome.
ServeFile(rw, urlPath, name, outcome) ==
    IF containsDotDot(urlPath)
    THEN httpError(rw, "invalid URL path", 0, StatusBadRequest)
    ELSE IF outcome = "notexist"
    THEN httpError(rw, "404 page not found", 0, StatusNotFound)
    ELSE IF outcome = "permission"
    THEN httpError(rw, "403 Forbidden", 0, StatusForbidden)
    ELSE IF outcome = "io"
    THEN httpError(rw, "500 Internal Server Error", 0, StatusInternalServerError)
    ELSE IF name \in Dirs
    THEN \* a directory, and the request path does not end in "/"
         [rw EXCEPT !.status = StatusMovedPermanently,
                    !.header.ContentType = TextHTML,
                    !.body = [NoBody EXCEPT !.kind = "redirect"]]
    ELSE [rw EXCEPT !.status = StatusOK,
                    !.header.ContentType = FileContentType(name),
                    !.body = [NoBody EXCEPT !.kind = "file", !.path = name]]

\* ------------------------------------------------------------ the origin
\* Status codes and content types an origin may answer with.
UpstreamStatuses == {200, 204, 404}
UpstreamTypes == {"image/webp", TextHTML}

\* httpClient.Get(url): an error (the 15 s Client.Timeout elapsed before the
\* response headers came, or no connection could be made), or the response
\* the origin gave after any redirects the client followed.
httpClientGet(url) ==
    {[err |-> e, resp |-> NoResp] : e \in {"timeout", "connect"}}
    \cup {[err |-> Nil, resp |-> [got |-> TRUE, StatusCode |-> c, ContentType |-> t]] :
            c \in UpstreamStatuses, t \in UpstreamTypes}

\* io.Copy(w, resp.Body): all bytes copied, or the copy stopped because the
\* caller went away (write) or the origin stalled or reset (read).
CopyOutcomes == {"ok", "write_error", "read_error"}

\* ------------------------------------------------------------ tags listing
\* SELECT DISTINCT unnest(tags) as tag FROM images ORDER BY tag
DistinctTags(cat) == UNION {{r.Tags[i] : i \in DOMAIN r.Tags} : r \in cat}

InTags(cat, t) == t \in DistinctTags(cat)

\* The same rows without the ORDER BY, as a scan from the end gives them.
UnsortedDistinctTags(cat) ==
    LET sorted == SelectSeq(TagOrder, LAMBDA t : InTags(cat, t))
    IN  [i \in 1 .. Len(sorted) |-> sorted[Len(sorted) + 1 - i]]

SortedDistinctTags(cat) == SelectSeq(TagOrder, LAMBDA t : InTags(cat, t))

\* ------------------------------------------------------------------ state
VARIABLES
    catalog,     \* the rows of table images, as Image records
    nextId,      \* the next value of the SERIAL sequence of images.id
    files,       \* the regular files of the file system, by absolute path
    sessions,    \* var sessions map[string]bool, as the set of its keys
    tokenCount,  \* how many tokens uuid.NewString() has handed out
    pc,          \* where the request task in flight stands
    route,       \* the pattern its request was routed by, "" when there is none
    tagQuery,    \* its tagQuery
    img,         \* its img
    err,         \* its err
    resp,        \* its resp
    w,           \* what it has written to its http.ResponseWriter
    calls,       \* how often it called chooseRandomImage, httpClient.Get, http.ServeFile
    opened,      \* the paths of the files it opened
    asked,       \* the deliveries it started: what it asked of ServeFile or Get
    deferred,    \* its deferred calls, run when its handler returns
    req,         \* what its request carried, for the admin handlers
    openBodies,  \* how many upstream response bodies the process holds open
    seen,        \* the answers observed so far for each class of fetch failure
    types,       \* the Content-Types observed so far on local deliveries
    acc          \* the accesses to the sessions map that are under way

storeVars == <<catalog, nextId, files>>
adminVars == <<sessions, tokenCount>>
taskVars == <<pc, route, tagQuery, img, err, resp, w, calls, opened, asked, deferred, req>>
restVars == <<seen, types, acc>>
vars == <<catalog, nextId, files, sessions, tokenCount,
          pc, route, tagQuery, img, err, resp, w, calls, opened, asked, deferred,
          req, openBodies, seen, types, acc>>

NoCalls == [choose |-> 0, get |-> 0, serve |-> 0, next |-> 0]

\* What a request to an admin route carries: its method, its session_token
\* cookie (0 for none) and its form values; all empty when there is no request.
NoReq ==
    [method |-> "", cookie |-> 0, username |-> "", password |-> "",
     url |-> <<>>, id |-> 0]

\* The tasks that may touch the sessions map at the same time, and none of
\* them doing so.
Tasks == 1 .. NumTasks
NoAccess == [t \in Tasks |-> [op |-> "none", key |-> 0]]

\* The classes of failure of a fetch from the origin, and no answer seen yet.
FailureClasses == {"UpstreamTimeout", "UpstreamError", "UpstreamStatus"}
NoneSeen == [c \in FailureClasses |-> {}]

\* The catalog at start: empty (initDB finds no image_urls.txt to import).
Init ==
    /\ catalog = {}
    /\ nextId = 1
    /\ files = InitFiles
    /\ sessions = {}
    /\ tokenCount = 0
    /\ pc = "idle"
    /\ route = ""
    /\ tagQuery = ""
    /\ img = NoImage
    /\ err = Nil
    /\ resp = NoResp
    /\ w = NoResponse
    /\ calls = NoCalls
    /\ opened = {}
    /\ asked = {}
    /\ deferred = <<>>
    /\ req = NoReq
    /\ openBodies = 0
    /\ seen = NoneSeen
    /\ types = {}
    /\ acc = NoAccess

\* ------------------------------------------------- the public handlers
\* A request arrives and the server starts its handler on a fresh task.
RecvRandomImageProxy(tag) ==
    /\ pc = "idle"
    /\ pc' = "proxy_choose"
    /\ route' = "/random-image"
    /\ tagQuery' = tag
    /\ UNCHANGED <<img, err, resp, w, calls, opened, asked, deferred, req>>
    /\ UNCHANGED <<storeVars, adminVars, openBodies, restVars>>

RecvRandomImageAPI(tag) ==
    /\ pc = "idle"
    /\ pc' = "api_choose"
    /\ route' = "/api/random-image"
    /\ tagQuery' = tag
    /\ UNCHANGED <<img, err, resp, w, calls, opened, asked, deferred, req>>
    /\ UNCHANGED <<storeVars, adminVars, openBodies, restVars>>

RecvTags ==
    /\ pc = "idle"
    /\ pc' = "tags_query"
    /\ route' = "/api/tags"
    /\ UNCHANGED <<tagQuery, img, err, resp, w, calls, opened, asked, deferred, req>>
    /\ UNCHANGED <<storeVars, adminVars, openBodies, restVars>>

\* Every failure of the lookup taken for a failure of the store.
chooseFailedAs500(rw, e) == httpError(rw, e, 0, StatusInternalServerError)

\* What both random-image handlers answer when chooseRandomImage fails:
\* http.Error(w, err.Error(), http.StatusNotFound)
chooseFailed(rw, e) == httpError(rw, e, 0, StatusNotFound)

\* A handler that, finding nothing under the tag, picks again.
ProxyChooseRetrying ==
    /\ pc = "proxy_choose"
    /\ \E out \in chooseRandomImage(catalog, tagQuery) :
          /\ img' = out.img
          /\ err' = out.err
          /\ calls' = [calls EXCEPT !.choose = @ + 1]
          /\ IF out.err # Nil /\ calls.choose = 0
             THEN w' = w /\ pc' = "proxy_choose" /\ tagQuery' = ""
             ELSE IF out.err # Nil
             THEN w' = chooseFailed(w, out.err) /\ pc' = "done" /\ tagQuery' = tagQuery
             ELSE w' = w /\ pc' = "proxy_branch" /\ tagQuery' = tagQuery
    /\ UNCHANGED <<route, resp, opened, asked, deferred, req>>
    /\ UNCHANGED <<storeVars, adminVars, openBodies, restVars>>

\* randomImageProxyHandler, up to the choice of the delivery branch.
ProxyChoose ==
    /\ pc = "proxy_choose"
    /\ \E out \in chooseRandomImage(catalog, tagQuery) :
          /\ img' = out.img
          /\ err' = out.err
          /\ calls' = [calls EXCEPT !.choose = @ + 1]
          /\ IF out.err # Nil
             THEN w' = chooseFailed(w, out.err) /\ pc' = "done"
             ELSE w' = w /\ pc' = "proxy_branch"
    /\ UNCHANGED <<route, tagQuery, resp, opened, asked, deferred, req>>
    /\ UNCHANGED <<storeVars, adminVars, openBodies, restVars>>

\* The location joined to the root with its marker left on.
localNameUnstripped(url) == filepathJoin(localImagesPath, url)

\* The path the local branch hands to http.ServeFile.
localName(url) == filepathJoin(localImagesPath, TrimLocalPrefix(url))

\* The local branch: http.ServeFile and return.
ServeLocalStep ==
    /\ pc = "proxy_branch"
    /\ HasLocalPrefix(img.URL)
    /\ LET name == localName(img.URL)
       IN  \E o \in OpenOutcomes(files, name) :
              /\ w' = ServeFile(w, RandomImagePath, name, o)
              /\ opened' = IF o = "ok" /\ ~containsDotDot(RandomImagePath)
                           THEN opened \cup {name} ELSE opened
              /\ asked' = asked \cup {[via |-> "ServeFile", target |-> name]}
    /\ calls' = [calls EXCEPT !.serve = @ + 1]
    /\ pc' = "done"
    /\ UNCHANGED <<route, tagQuery, img, err, resp, deferred, req>>
    /\ UNCHANGED <<storeVars, adminVars, openBodies>>

ProxyServeLocal == ServeLocalStep /\ UNCHANGED restVars

\* A failed fetch answered like a failed lookup.
getFailedAsNotFound(rw, e) ==
    httpError(rw, "cannot fetch the image from the image host", 0, StatusNotFound)

\* What the handler answers when httpClient.Get returns an error.
getFailed(rw, e) ==
    httpError(rw, "cannot fetch the image from the image host", 0,
              StatusInternalServerError)

\* A handler that forgets to defer the close.
deferNothing(d) == d

\* defer resp.Body.Close()
deferClose(d) == Append(d, "resp.Body.Close")

\* The deferred calls run when the handler returns: each closes one body.
runDeferred(n, d) == n - Len(d)

\* A handler that drops from the catalog a record whose fetch failed.
GetStepPurging ==
    /\ pc = "proxy_branch"
    /\ ~HasLocalPrefix(img.URL)
    /\ \E out \in httpClientGet(img.URL) :
          /\ err' = out.err
          /\ resp' = out.resp
          /\ IF out.err # Nil
             THEN /\ w' = getFailed(w, out.err)
                  /\ pc' = "done"
                  /\ catalog' = catalog \ {img}
             ELSE w' = w /\ pc' = "proxy_status" /\ catalog' = catalog
          /\ deferred' = IF out.err # Nil THEN deferred ELSE deferClose(deferred)
          /\ openBodies' = IF out.err # Nil THEN openBodies ELSE openBodies + 1
    /\ calls' = [calls EXCEPT !.get = @ + 1]
    /\ asked' = asked \cup {[via |-> "Get", target |-> img.URL]}
    /\ UNCHANGED <<route, tagQuery, img, opened, req>>
    /\ UNCHANGED <<nextId, files, adminVars>>

\* The remote branch: resp, err := httpClient.Get(img.URL), and the answer
\* and return when it fails.
GetStep ==
    /\ pc = "proxy_branch"
    /\ ~HasLocalPrefix(img.URL)
    /\ \E out \in httpClientGet(img.URL) :
          /\ err' = out.err
          /\ resp' = out.resp
          /\ IF out.err # Nil
             THEN w' = getFailed(w, out.err) /\ pc' = "done"
             ELSE w' = w /\ pc' = "proxy_status"
          /\ deferred' = IF out.err # Nil THEN deferred ELSE deferClose(deferred)
          /\ openBodies' = IF out.err # Nil THEN openBodies ELSE openBodies + 1
    /\ calls' = [calls EXCEPT !.get = @ + 1]
    /\ asked' = asked \cup {[via |-> "Get", target |-> img.URL]}
    /\ UNCHANGED <<route, tagQuery, img, opened, req>>
    /\ UNCHANGED <<storeVars, adminVars>>

ProxyGet == GetStep /\ UNCHANGED restVars

\* The origin's error page passed on under the origin's status.
statusFailedRelaying(rw, code) ==
    [rw EXCEPT !.status = code,
               !.header.ContentType = TextHTML,
               !.body = [NoBody EXCEPT !.kind = "upstream"]]

\* An upstream status answered like a failed fetch.
statusFailedAsGetFailed(rw, code) == getFailed(rw, "status")

\* What the handler answers to an upstream status other than 200.
statusFailed(rw, code) ==
    httpError(rw, "the image host returned an error", code, StatusBadGateway)

\* The headers the remote branch sets before it copies the body.
relayHeaders(rw, upstream) ==
    [rw EXCEPT !.header.ContentType = upstream.ContentType,
               !.header.CacheControl = NoCacheValue]

\* if resp.StatusCode != http.StatusOK { ... return }; then the headers.
CheckStatusStep ==
    /\ pc = "proxy_status"
    /\ IF resp.StatusCode # StatusOK
       THEN w' = statusFailed(w, resp.StatusCode) /\ pc' = "done"
       ELSE w' = relayHeaders(w, resp) /\ pc' = "proxy_copy"
    /\ UNCHANGED <<route, tagQuery, img, err, resp, calls, opened, asked, deferred, req>>
    /\ UNCHANGED <<storeVars, adminVars, openBodies>>

ProxyCheckStatus == CheckStatusStep /\ UNCHANGED restVars

\* _, err = io.Copy(w, resp.Body): the first write sends status 200 and the
\* headers; a failure is logged and the handler returns.
ProxyCopy ==
    /\ pc = "proxy_copy"
    /\ \E o \in CopyOutcomes :
          /\ w' = [w EXCEPT !.status = StatusOK,
                            !.body = [NoBody EXCEPT !.kind = "upstream",
                                                    !.path = img.URL,
                                                    !.complete = (o = "ok")]]
          /\ err' = IF o = "ok" THEN Nil ELSE o
    /\ pc' = "done"
    /\ UNCHANGED <<route, tagQuery, img, resp, calls, opened, asked, deferred, req>>
    /\ UNCHANGED <<storeVars, adminVars, openBodies, restVars>>

\* An answer that leaves the record's tags out.
apiAnswerWithoutTags(rw, image) ==
    [rw EXCEPT !.status = StatusOK,
               !.header.ContentType = JSONType,
               !.header.CacheControl = NoCacheValue,
               !.body = [NoBody EXCEPT !.kind = "image_json",
                                       !.img = [image EXCEPT !.Tags = <<>>]]]

\* json.NewEncoder(w).Encode(img) under the JSON and no-cache headers.
apiAnswer(rw, image) ==
    [rw EXCEPT !.status = StatusOK,
               !.header.ContentType = JSONType,
               !.header.CacheControl = NoCacheValue,
               !.body = [NoBody EXCEPT !.kind = "image_json",
                                       !.img = image]]

\* randomImageAPIHandler
ApiChoose ==
    /\ pc = "api_choose"
    /\ \E out \in chooseRandomImage(catalog, tagQuery) :
          /\ img' = out.img
          /\ err' = out.err
          /\ calls' = [calls EXCEPT !.choose = @ + 1]
          /\ IF out.err # Nil
             THEN w' = chooseFailed(w, out.err)
             ELSE w' = apiAnswer(w, out.img)
    /\ pc' = "done"
    /\ UNCHANGED <<route, tagQuery, resp, opened, asked, deferred, req>>
    /\ UNCHANGED <<storeVars, adminVars, openBodies, restVars>>

\* tagsAPIHandler; var tags []string stays nil when the query has no rows,
\* and a nil slice is encoded as the JSON value null.
TagsQuery ==
    /\ pc = "tags_query"
    /\ \E dbOk \in BOOLEAN :
          IF ~dbOk
          THEN /\ w' = httpError(w, "cannot get the tag list", 0,
                                 StatusInternalServerError)
               /\ err' = ErrStorage
          ELSE LET tags == SortedDistinctTags(catalog)
               IN  /\ w' = [w EXCEPT !.status = StatusOK,
                                     !.header.ContentType = JSONType,
                                     !.body = [NoBody EXCEPT !.kind = "tags_json",
                                                             !.tags = tags,
                                                             !.null = (tags = <<>>)]]
                   /\ err' = Nil
    /\ pc' = "done"
    /\ UNCHANGED <<route, tagQuery, img, resp, calls, opened, asked, deferred, req>>
    /\ UNCHANGED <<storeVars, adminVars, openBodies, restVars>>

\* The handler returns, the task ends and the server is ready for the next.
Return ==
    /\ pc = "done"
    /\ pc' = "idle"
    /\ route' = ""
    /\ tagQuery' = ""
    /\ img' = NoImage
    /\ err' = Nil
    /\ resp' = NoResp
    /\ w' = NoResponse
    /\ calls' = NoCalls
    /\ opened' = {}
    /\ asked' = {}
    /\ deferred' = <<>>
    /\ req' = NoReq
    /\ openBodies' = runDeferred(openBodies, deferred)
    /\ UNCHANGED <<storeVars, adminVars, restVars>>

\* ------------------------------------------------- the admin handlers
\* adminUsername, adminPassword: loadConfig takes them from the environment
\* and refuses empty ones.
adminUsername == "admin"
adminPassword == "secret"
Usernames == {"admin", "guest"}
Passwords == {"secret", "wrong"}

\* The session_token cookie of a request: 0 when it carries none, else the
\* token, which may be one the server never handed out.
Cookies == 0 .. MaxTokens

\* A middleware that asks only for a cookie, whatever its value.
authMiddlewareAnyCookie(cookie) == cookie # 0

\* authMiddleware: the wrapped handler runs iff the cookie is there and
\* sessions[cookie.Value] is true; otherwise the request is redirected.
authMiddleware(cookie) == cookie # 0 /\ cookie \in sessions

\* The test of adminLoginHandler on the form values.
credentialsMatch(username, password) ==
    username = adminUsername /\ password = adminPassword

\* adminLoginHandler, POST
adminLoginHandler(username, password) ==
    /\ tokenCount < MaxTokens
    /\ IF credentialsMatch(username, password)
       THEN /\ tokenCount' = tokenCount + 1
            /\ sessions' = sessions \cup {tokenCount + 1}
       ELSE UNCHANGED <<sessions, tokenCount>>
    /\ UNCHANGED <<storeVars, taskVars, openBodies, restVars>>

\* strings.TrimSpace on the form values of the model
TrimSpace(str) ==
    IF str = " Desktop" THEN "Desktop" ELSE IF str = " " THEN "" ELSE str

\* The loop over strings.Split(otherTagsStr, ","), on the pieces of the split.
RECURSIVE appendTrimmed(_, _)
appendTrimmed(tags, pieces) ==
    IF pieces = <<>> THEN tags
    ELSE LET trimmed == TrimSpace(Head(pieces))
         IN  appendTrimmed(IF trimmed # "" THEN Append(tags, trimmed) ELSE tags,
                           Tail(pieces))

\* finalTags of adminAddImageHandler and adminEditImageHandler
finalTags(imageType, pieces) ==
    appendTrimmed(IF imageType # "" THEN <<imageType>> ELSE <<>>, pieces)

\* Form values of image_type and (split at ",") other_tags.
ImageTypes == {"", "desktop"}
OtherTagStrs == {<<" ">>, <<" Desktop">>}

\* A table without the UNIQUE constraint on url.
urlTakenNever(cat, id, url) == FALSE

\* url TEXT NOT NULL UNIQUE: whether a row other than row id holds the url.
urlTaken(cat, id, url) == \E r \in cat : r.ID # id /\ r.URL = url

\* INSERT INTO images (url, tags) VALUES ($1, $2), the row getting id
insertImage(cat, id, url, tags) ==
    IF urlTaken(cat, id, url) THEN cat
    ELSE cat \cup {[ID |-> id, URL |-> url, Tags |-> tags]}

\* UPDATE images SET url=$1, tags=$2 WHERE id=$3
updateImage(cat, id, url, tags) ==
    IF (\E r \in cat : r.ID = id) /\ urlTaken(cat, id, url) THEN cat
    ELSE {IF r.ID = id THEN [r EXCEPT !.URL = url, !.Tags = tags] ELSE r : r \in cat}

\* DELETE FROM images WHERE id=$1
deleteImage(cat, id) == {r \in cat : r.ID # id}

\* adminAddImageHandler, POST: INSERT INTO images (url, tags).  The sequence
\* gives the row its id before the UNIQUE constraint on url is checked.
adminAddImageHandler(cookie, imgURL, imageType, otherTagsStr) ==
    /\ authMiddleware(cookie)
    /\ nextId <= MaxId
    /\ nextId' = nextId + 1
    /\ catalog' = insertImage(catalog, nextId, imgURL,
                              finalTags(imageType, otherTagsStr))
    /\ UNCHANGED <<files, adminVars, taskVars, openBodies, restVars>>

\* adminDeleteImageHandler, POST: DELETE FROM images WHERE id=$1
adminDeleteImageHandler(cookie, id) ==
    /\ authMiddleware(cookie)
    /\ catalog' = deleteImage(catalog, id)
    /\ UNCHANGED <<nextId, files, adminVars, taskVars, openBodies, restVars>>

\* Form values of file_name (split at "/").
FileNames == {<<"b.webp">>}

\* os.Remove(path): the file is gone; the call fails when there is none.
osRemove(fs, path) == fs \ {path}

\* os.Rename(oldPath, newPath): fails when there is no file at oldPath or
\* newPath is a directory, and then changes nothing.
osRenameFails(fs, oldPath, newPath) == oldPath \notin fs \/ newPath \in Dirs

osRename(fs, oldPath, newPath) ==
    IF osRenameFails(fs, oldPath, newPath) THEN fs
    ELSE (fs \ {oldPath}) \cup {newPath}

\* adminDeleteFileHandler, POST: os.Remove(filepath.Join(localImagesPath, fileName))
adminDeleteFileHandler(cookie, fileName) ==
    /\ authMiddleware(cookie)
    /\ fileName # <<"">>
    /\ files' = osRemove(files, filepathJoin(localImagesPath, fileName))
    /\ UNCHANGED <<catalog, nextId, adminVars, taskVars, openBodies, restVars>>

\* ------------------------------------------------------------ specification
PublicStep ==
    \/ \E tag \in TagQueries : RecvRandomImageProxy(tag)
    \/ \E tag \in TagQueries : RecvRandomImageAPI(tag)
    \/ RecvTags
    \/ ProxyChoose
    \/ ProxyServeLocal
    \/ ProxyGet
    \/ ProxyCheckStatus
    \/ ProxyCopy
    \/ ApiChoose
    \/ TagsQuery
    \/ Return

AdminStep ==
    \/ \E u \in Usernames, p \in Passwords : adminLoginHandler(u, p)
    \/ \E c \in Cookies, u \in Locations, t \in ImageTypes, o \in OtherTagStrs :
          adminAddImageHandler(c, u, t, o)
    \/ \E c \in Cookies, id \in 1 .. MaxId : adminDeleteImageHandler(c, id)
    \/ \E c \in Cookies, f \in FileNames : adminDeleteFileHandler(c, f)

Next == PublicStep \/ AdminStep

Spec == Init /\ [][Next]_vars

\* ------------------------------------------- the origin's failures, observed
\* What the caller sees of an answer: its status and its message.
answerOf(rw) == [status |-> rw.status, msg |-> rw.body.msg, code |-> rw.body.code]

\* The same steps of randomImageProxyHandler, with each failure of the fetch
\* filed under its class.
ObservedGet ==
    /\ GetStep
    /\ seen' = IF err' = "timeout"
               THEN [seen EXCEPT !["UpstreamTimeout"] = @ \cup {answerOf(w')}]
               ELSE IF err' = "connect"
               THEN [seen EXCEPT !["UpstreamError"] = @ \cup {answerOf(w')}]
               ELSE seen
    /\ UNCHANGED <<types, acc>>

ObservedCheckStatus ==
    /\ CheckStatusStep
    /\ seen' = IF resp.StatusCode # StatusOK
               THEN [seen EXCEPT !["UpstreamStatus"] = @ \cup {answerOf(w')}]
               ELSE seen
    /\ UNCHANGED <<types, acc>>

\* A catalog of one remote record, as the administrator's first add leaves it.
FetchInit ==
    /\ catalog = {[ID |-> 1, URL |-> LocRemote, Tags |-> <<"desktop">>]}
    /\ nextId = 2
    /\ files = InitFiles
    /\ sessions = {1}
    /\ tokenCount = 1
    /\ pc = "idle"
    /\ route = ""
    /\ tagQuery = ""
    /\ img = NoImage
    /\ err = Nil
    /\ resp = NoResp
    /\ w = NoResponse
    /\ calls = NoCalls
    /\ opened = {}
    /\ asked = {}
    /\ deferred = <<>>
    /\ req = NoReq
    /\ openBodies = 0
    /\ seen = NoneSeen
    /\ types = {}
    /\ acc = NoAccess

FetchNext ==
    \/ \E tag \in TagQueries : RecvRandomImageProxy(tag)
    \/ ProxyChoose
    \/ ObservedGet
    \/ ObservedCheckStatus
    \/ ProxyCopy
    \/ Return

SpecFetch == FetchInit /\ [][FetchNext]_vars

\* ------------------------------------------- local deliveries, observed
\* A second image of the local store, of another type, and its record.
LocLocalPng == <<"", "local", "c.png">>
FilePng == <<"app", "local_images", "c.png">>

\* The local branch, with the Content-Type of each successful answer noted.
ObservedServeLocal ==
    /\ ServeLocalStep
    /\ types' = IF w'.status = StatusOK
                THEN types \cup {w'.header.ContentType} ELSE types
    /\ UNCHANGED <<seen, acc>>

\* A catalog of one remote and two local records, as three adds leave it, and
\* both local files in the store.
DeliverInit ==
    /\ catalog = {[ID |-> 1, URL |-> LocRemote, Tags |-> <<"desktop">>],
                  [ID |-> 2, URL |-> LocLocal, Tags |-> <<"desktop">>],
                  [ID |-> 3, URL |-> LocLocalPng, Tags |-> <<"mobile">>]}
    /\ nextId = 4
    /\ files = InitFiles \cup {FilePng}
    /\ sessions = {1}
    /\ tokenCount = 1
    /\ pc = "idle"
    /\ route = ""
    /\ tagQuery = ""
    /\ img = NoImage
    /\ err = Nil
    /\ resp = NoResp
    /\ w = NoResponse
    /\ calls = NoCalls
    /\ opened = {}
    /\ asked = {}
    /\ deferred = <<>>
    /\ req = NoReq
    /\ openBodies = 0
    /\ seen = NoneSeen
    /\ types = {}
    /\ acc = NoAccess

DeliverNext ==
    \/ \E tag \in TagQueries : RecvRandomImageProxy(tag)
    \/ ProxyChoose
    \/ ObservedServeLocal
    \/ ProxyGet
    \/ ProxyCheckStatus
    \/ ProxyCopy
    \/ Return

SpecDeliver == DeliverInit /\ [][DeliverNext]_vars

\* ------------------------------------------------- the admin routes, served
\* http.Redirect(w, r, url, code)
httpRedirect(rw, url, code) == [rw EXCEPT !.status = code, !.header.Location = url]

\* templates.ExecuteTemplate(w, name, pageData)
executeTemplate(rw, name) ==
    [rw EXCEPT !.status = StatusOK,
               !.header.ContentType = TextHTML,
               !.body = [NoBody EXCEPT !.kind = "page", !.msg = name]]

Methods == {"GET", "POST"}

\* A request to route rt is taken up and answered in one go; what the answer
\* and the effect are is the handler's part.
Serve(rt, r) ==
    /\ pc = "idle"
    /\ pc' = "done"
    /\ route' = rt
    /\ req' = r
    /\ UNCHANGED <<tagQuery, img, err, resp, opened, asked, deferred>>
    /\ UNCHANGED <<openBodies, restVars>>

\* authMiddleware on the way in: the redirect and return of a refused request,
\* or next.ServeHTTP(w, r).
Refused ==
    /\ w' = httpRedirect(w, "/admin/login", StatusFound)
    /\ calls' = calls
    /\ UNCHANGED storeVars

Passed == calls' = [calls EXCEPT !.next = @ + 1]

\* adminLoginHandler
ServeLogin(method, username, password) ==
    /\ Serve("/admin/login", [NoReq EXCEPT !.method = method,
                                           !.username = username,
                                           !.password = password])
    /\ IF method = "POST" /\ credentialsMatch(username, password)
       THEN /\ tokenCount < MaxTokens
            /\ tokenCount' = tokenCount + 1
            /\ sessions' = sessions \cup {tokenCount + 1}
            /\ w' = [httpRedirect(w, "/admin", StatusFound)
                        EXCEPT !.header.SetCookie = tokenCount + 1]
       ELSE /\ UNCHANGED <<sessions, tokenCount>>
            /\ w' = executeTemplate(w, "login.html")
    /\ UNCHANGED <<storeVars, calls>>

\* adminLogoutHandler
ServeLogout(method, cookie) ==
    /\ Serve("/admin/logout", [NoReq EXCEPT !.method = method, !.cookie = cookie])
    /\ sessions' = IF cookie # 0 THEN sessions \ {cookie} ELSE sessions
    /\ w' = [httpRedirect(w, "/admin/login", StatusFound)
                EXCEPT !.header.SetCookie = -1]
    /\ UNCHANGED <<storeVars, tokenCount, calls>>

\* authMiddleware(adminDashboardHandler)
ServeDashboard(method, cookie) ==
    /\ Serve("/admin", [NoReq EXCEPT !.method = method, !.cookie = cookie])
    /\ IF ~authMiddleware(cookie) THEN Refused
       ELSE /\ Passed
            /\ \E dbOk \in BOOLEAN :
                  w' = IF dbOk THEN executeTemplate(w, "dashboard.html")
                       ELSE httpError(w, "cannot list images", 0,
                                      StatusInternalServerError)
            /\ UNCHANGED storeVars
    /\ UNCHANGED adminVars

\* authMiddleware(adminAddImageHandler)
ServeAdd(method, cookie, imgURL, imageType, otherTagsStr) ==
    /\ Serve("/admin/add", [NoReq EXCEPT !.method = method, !.cookie = cookie,
                                         !.url = imgURL])
    /\ IF ~authMiddleware(cookie) THEN Refused
       ELSE /\ Passed
            /\ IF method = "POST"
               THEN /\ nextId <= MaxId
                    /\ nextId' = nextId + 1
                    /\ catalog' = insertImage(catalog, nextId, imgURL,
                                              finalTags(imageType, otherTagsStr))
                    /\ files' = files
                    /\ w' = IF urlTaken(catalog, nextId, imgURL)
                            THEN httpError(w, "add failed", 0,
                                           StatusInternalServerError)
                            ELSE httpRedirect(w, "/admin", StatusFound)
               ELSE /\ w' = executeTemplate(w, "edit.html")
                    /\ UNCHANGED storeVars
    /\ UNCHANGED adminVars

\* authMiddleware(adminEditImageHandler); id is the id of the query string.
ServeEdit(method, cookie, id, imgURL, imageType, otherTagsStr) ==
    /\ Serve("/admin/edit", [NoReq EXCEPT !.method = method, !.cookie = cookie,
                                          !.url = imgURL, !.id = id])
    /\ IF ~authMiddleware(cookie) THEN Refused
       ELSE /\ Passed
            /\ IF method = "POST"
               THEN /\ catalog' = updateImage(catalog, id, imgURL,
                                              finalTags(imageType, otherTagsStr))
                    /\ UNCHANGED <<nextId, files>>
                    /\ w' = IF (\E r \in catalog : r.ID = id)
                                  /\ urlTaken(catalog, id, imgURL)
                            THEN httpError(w, "update failed", 0,
                                           StatusInternalServerError)
                            ELSE httpRedirect(w, "/admin", StatusFound)
               ELSE /\ w' = IF \E r \in catalog : r.ID = id
                            THEN executeTemplate(w, "edit.html")
                            ELSE httpError(w, "image not found", 0, StatusNotFound)
                    /\ UNCHANGED storeVars
    /\ UNCHANGED adminVars

\* authMiddleware(adminDeleteImageHandler)
ServeDelete(method, cookie, id) ==
    /\ Serve("/admin/delete", [NoReq EXCEPT !.method = method, !.cookie = cookie])
    /\ IF ~authMiddleware(cookie) THEN Refused
       ELSE /\ Passed
            /\ IF method # "POST"
               THEN /\ w' = httpError(w, "invalid request method", 0,
                                      StatusMethodNotAllowed)
                    /\ UNCHANGED storeVars
               ELSE /\ catalog' = deleteImage(catalog, id)
                    /\ UNCHANGED <<nextId, files>>
                    /\ w' = httpRedirect(w, "/admin", StatusFound)
    /\ UNCHANGED adminVars

\* authMiddleware(adminLocalFilesHandler)
ServeLocalFiles(method, cookie) ==
    /\ Serve("/admin/local_files", [NoReq EXCEPT !.method = method, !.cookie = cookie])
    /\ IF ~authMiddleware(cookie) THEN Refused
       ELSE /\ Passed
            /\ w' = executeTemplate(w, "local_files.html")
            /\ UNCHANGED storeVars
    /\ UNCHANGED adminVars

\* filepath.Base(parsedURL.Path), or a fresh name when the path has no base.
downloadName(fileURL) ==
    IF Len(fileURL) <= 3 \/ fileURL[Len(fileURL)] = "" THEN "uuid.jpg"
    ELSE fileURL[Len(fileURL)]

\* Form values of url on /admin/download.
DownloadURLs == {<<"">>, LocRemote}

\* authMiddleware(adminDownloadURLHandler); os.Create leaves the file in place
\* even when the copy into it fails.
ServeDownload(method, cookie, fileURL) ==
    /\ Serve("/admin/download", [NoReq EXCEPT !.method = method, !.cookie = cookie])
    /\ IF ~authMiddleware(cookie) THEN Refused
       ELSE /\ Passed
            /\ UNCHANGED <<catalog, nextId>>
            /\ IF method # "POST"
               THEN /\ w' = httpError(w, "invalid request", 0, StatusMethodNotAllowed)
                    /\ files' = files
               ELSE IF fileURL = <<"">>
               THEN /\ w' = httpError(w, "URL must not be empty", 0, StatusBadRequest)
                    /\ files' = files
               ELSE \E out \in httpClientGet(fileURL) :
                      IF out.err # Nil
                      THEN /\ w' = httpError(w, out.err, 0, StatusInternalServerError)
                           /\ files' = files
                      ELSE IF out.resp.StatusCode # StatusOK
                      THEN /\ w' = httpError(w, "download failed, origin status",
                                             out.resp.StatusCode,
                                             StatusInternalServerError)
                           /\ files' = files
                      ELSE /\ files' = files \cup
                                {filepathJoin(localImagesPath, <<downloadName(fileURL)>>)}
                           /\ \E copyOk \in BOOLEAN :
                                 w' = IF copyOk
                                      THEN httpRedirect(w, "/admin/local_files", StatusFound)
                                      ELSE httpError(w, "saving the file failed", 0,
                                                     StatusInternalServerError)
    /\ UNCHANGED adminVars

\* oldName == "" || newName == "" || strings.Contains(newName, "/")
renameRefused(oldName, newName) ==
    oldName = <<"">> \/ newName = <<"">> \/ Len(newName) > 1

\* authMiddleware(adminRenameFileHandler)
ServeRenameFile(method, cookie, oldName, newName) ==
    /\ Serve("/admin/rename_file", [NoReq EXCEPT !.method = method, !.cookie = cookie])
    /\ IF ~authMiddleware(cookie) THEN Refused
       ELSE /\ Passed
            /\ UNCHANGED <<catalog, nextId>>
            /\ LET oldPath == filepathJoin(localImagesPath, oldName)
                   newPath == filepathJoin(localImagesPath, newName)
               IN  IF method # "POST"
                   THEN /\ w' = httpError(w, "invalid request", 0, StatusMethodNotAllowed)
                        /\ files' = files
                   ELSE IF renameRefused(oldName, newName)
                   THEN /\ w' = httpError(w, "name empty or with a slash", 0,
                                          StatusBadRequest)
                        /\ files' = files
                   ELSE /\ files' = osRename(files, oldPath, newPath)
                        /\ w' = IF osRenameFails(files, oldPath, newPath)
                                THEN httpError(w, "rename failed", 0,
                                               StatusInternalServerError)
                                ELSE httpRedirect(w, "/admin/local_files", StatusFound)
    /\ UNCHANGED adminVars

\* authMiddleware(adminDeleteFileHandler)
ServeDeleteFile(method, cookie, fileName) ==
    /\ Serve("/admin/delete_file", [NoReq EXCEPT !.method = method, !.cookie = cookie])
    /\ IF ~authMiddleware(cookie) THEN Refused
       ELSE /\ Passed
            /\ UNCHANGED <<catalog, nextId>>
            /\ LET filePath == filepathJoin(localImagesPath, fileName)
               IN  IF method # "POST"
                   THEN /\ w' = httpError(w, "invalid request", 0, StatusMethodNotAllowed)
                        /\ files' = files
                   ELSE IF fileName = <<"">>
                   THEN /\ w' = httpError(w, "file name must not be empty", 0,
                                          StatusBadRequest)
                        /\ files' = files
                   ELSE /\ files' = osRemove(files, filePath)
                        /\ w' = IF filePath \notin files
                                THEN httpError(w, "deleting the file failed", 0,
                                               StatusInternalServerError)
                                ELSE httpRedirect(w, "/admin/local_files", StatusFound)
    /\ UNCHANGED adminVars

\* --------------------------------------------------- start-up and import
\* A line of image_urls.txt after strings.Split(line, ","): the url before the
\* first comma and the pieces after it; a blank line has neither.
BlankLine == [url |-> <<"">>, rest |-> <<>>]

\* The contents image_urls.txt may have; none when the file is missing.
ImportFiles ==
    {<<>>,
     <<[url |-> LocRemote, rest |-> <<" Desktop">>], BlankLine,
       [url |-> LocRemote, rest |-> <<>>]>>}

\* The scanner loop of initDB: INSERT ... ON CONFLICT (url) DO NOTHING for
\* each line that is not blank; a conflicting line still uses up an id.
RECURSIVE importLines(_, _)
importLines(db, lines) ==
    IF lines = <<>> THEN db
    ELSE IF Head(lines) = BlankLine THEN importLines(db, Tail(lines))
    ELSE importLines(
            [catalog |-> insertImage(db.catalog, db.nextId, Head(lines).url,
                                     appendTrimmed(<<>>, Head(lines).rest)),
             nextId |-> db.nextId + 1],
            Tail(lines))

\* initDB: nothing is imported into a table that has rows.
initDB(db, lines) ==
    IF Cardinality(db.catalog) > 0 THEN db ELSE importLines(db, lines)

\* main, run again after the process stopped: the sessions map starts empty,
\* the database is as it was, and initDB runs.
Restart(lines) ==
    /\ pc = "idle"
    /\ LET db == initDB([catalog |-> catalog, nextId |-> nextId], lines)
       IN  /\ db.nextId <= MaxId + 1
           /\ catalog' = db.catalog
           /\ nextId' = db.nextId
    /\ sessions' = {}
    /\ UNCHANGED <<files, tokenCount, taskVars, openBodies, restVars>>

\* Form values of url on /admin/add and /admin/edit.
FormURLs == {LocRemote, <<"">>}
NewNames == {<<"c.png">>}

\* The server after main has run initDB on a new database.
AdminInit ==
    /\ \E lines \in ImportFiles :
          LET db == initDB([catalog |-> {}, nextId |-> 1], lines)
          IN  catalog = db.catalog /\ nextId = db.nextId
    /\ files = InitFiles
    /\ sessions = {}
    /\ tokenCount = 0
    /\ pc = "idle"
    /\ route = ""
    /\ tagQuery = ""
    /\ img = NoImage
    /\ err = Nil
    /\ resp = NoResp
    /\ w = NoResponse
    /\ calls = NoCalls
    /\ opened = {}
    /\ asked = {}
    /\ deferred = <<>>
    /\ req = NoReq
    /\ openBodies = 0
    /\ seen = NoneSeen
    /\ types = {}
    /\ acc = NoAccess

AdminNext ==
    \/ \E m \in Methods, u \in Usernames, p \in Passwords : ServeLogin(m, u, p)
    \/ \E m \in Methods, c \in Cookies : ServeLogout(m, c)
    \/ \E m \in Methods, c \in Cookies : ServeDashboard(m, c)
    \/ \E m \in Methods, c \in Cookies, u \in FormURLs, t \in ImageTypes,
          o \in OtherTagStrs : ServeAdd(m, c, u, t, o)
    \/ \E m \in Methods, c \in Cookies, id \in 1 .. MaxId, u \in FormURLs,
          t \in ImageTypes, o \in OtherTagStrs : ServeEdit(m, c, id, u, t, o)
    \/ \E m \in Methods, c \in Cookies, id \in 1 .. MaxId : ServeDelete(m, c, id)
    \/ \E m \in Methods, c \in Cookies : ServeLocalFiles(m, c)
    \/ \E m \in Methods, c \in Cookies, u \in DownloadURLs : ServeDownload(m, c, u)
    \/ \E m \in Methods, c \in Cookies, o \in FileNames, n \in NewNames :
          ServeRenameFile(m, c, o, n)
    \/ \E m \in Methods, c \in Cookies, f \in FileNames : ServeDeleteFile(m, c, f)
    \/ \E lines \in ImportFiles : Restart(lines)
    \/ Return

SpecAdmin == AdminInit /\ [][AdminNext]_vars

\* ------------------------------------------------ the file routes, any name
\* Form values of old_name and file_name, and of new_name (split at "/").
OldNames == {<<"">>, <<"b.webp">>, <<"..", "..", "etc", "passwd">>}
AnyNewNames == {<<"">>, <<"c.png">>, <<"..">>, <<"sub", "c.png">>}

\* The administrator is logged in.
FilesInit ==
    /\ catalog = {}
    /\ nextId = 1
    /\ files = InitFiles
    /\ sessions = {1}
    /\ tokenCount = 1
    /\ pc = "idle"
    /\ route = ""
    /\ tagQuery = ""
    /\ img = NoImage
    /\ err = Nil
    /\ resp = NoResp
    /\ w = NoResponse
    /\ calls = NoCalls
    /\ opened = {}
    /\ asked = {}
    /\ deferred = <<>>
    /\ req = NoReq
    /\ openBodies = 0
    /\ seen = NoneSeen
    /\ types = {}
    /\ acc = NoAccess

FilesNext ==
    \/ \E m \in Methods, c \in Cookies, o \in OldNames, n \in AnyNewNames :
          ServeRenameFile(m, c, o, n)
    \/ \E m \in Methods, c \in Cookies, f \in OldNames : ServeDeleteFile(m, c, f)
    \/ \E m \in Methods, c \in Cookies : ServeLocalFiles(m, c)
    \/ \E m \in Methods, c \in Cookies, u \in DownloadURLs : ServeDownload(m, c, u)
    \/ Return

SpecFiles == FilesInit /\ [][FilesNext]_vars

\* ------------------------------------- the sessions map, access by access
\* net/http runs each request in a goroutine of its own, and the handlers use
\* the map sessions without a lock: an access of a task begins, and ends some
\* time later, whatever the other tasks do meanwhile.
MapWrites == {"insert", "delete"}

Begin(t, op, key) ==
    /\ acc[t].op = "none"
    /\ acc' = [acc EXCEPT ![t] = [op |-> op, key |-> key]]

\* authMiddleware: sessions[cookie.Value]
BeginRead(t, cookie) ==
    /\ cookie # 0
    /\ Begin(t, "read", cookie)
    /\ UNCHANGED <<storeVars, adminVars, taskVars, openBodies, seen, types>>

\* adminLoginHandler with matching credentials: sessions[sessionToken] = true
BeginInsert(t) ==
    /\ tokenCount < MaxTokens
    /\ tokenCount' = tokenCount + 1
    /\ Begin(t, "insert", tokenCount + 1)
    /\ UNCHANGED <<storeVars, sessions, taskVars, openBodies, seen, types>>

\* adminLogoutHandler: delete(sessions, cookie.Value)
BeginDelete(t, cookie) ==
    /\ cookie # 0
    /\ Begin(t, "delete", cookie)
    /\ UNCHANGED <<storeVars, adminVars, taskVars, openBodies, seen, types>>

\* The access of task t is through.
EndAccess(t) ==
    /\ acc[t].op # "none"
    /\ sessions' = IF acc[t].op = "insert" THEN sessions \cup {acc[t].key}
                   ELSE IF acc[t].op = "delete" THEN sessions \ {acc[t].key}
                   ELSE sessions
    /\ acc' = [acc EXCEPT ![t] = [op |-> "none", key |-> 0]]
    /\ UNCHANGED <<storeVars, tokenCount, taskVars, openBodies, seen, types>>

\* The runtime finds the map written while another task is in it and stops
\* the process (fatal error: concurrent map writes, or concurrent map read and
\* map write); started again, the process has no sessions.
Fatal ==
    /\ \E t1, t2 \in Tasks :
          t1 # t2 /\ acc[t1].op \in MapWrites /\ acc[t2].op # "none"
    /\ sessions' = {}
    /\ acc' = NoAccess
    /\ UNCHANGED <<storeVars, tokenCount, taskVars, openBodies, seen, types>>

RaceNext ==
    \/ \E t \in Tasks, c \in Cookies : BeginRead(t, c)
    \/ \E t \in Tasks : BeginInsert(t)
    \/ \E t \in Tasks, c \in Cookies : BeginDelete(t, c)
    \/ \E t \in Tasks : EndAccess(t)
    \/ Fatal

SpecRace == Init /\ [][RaceNext]_vars

\* ------------------------------------------------------------------ claims
RandomImageRoutes == {"/random-image", "/api/random-image"}

\* A step in which a random-image handler's call of chooseRandomImage returns.
ChooseReturns == pc \in {"proxy_choose", "api_choose"} /\ pc' # pc

\* C1: whenever chooseRandomImage returns without error, the record it returns
\* is in the catalog as it is at the time of the query, and, when the request
\* names a tag, the record's tags hold that very tag (so its tags are not empty).
C1_ChosenIsCandidate ==
    [][(ChooseReturns /\ err' = Nil) =>
          /\ img' \in catalog
          /\ tagQuery # "" => (img'.Tags # <<>> /\ TagsContain(img'.Tags, tagQuery))]_vars

\* C1 witness: a tagged request got a record while the catalog also held a
\* record without the tag.
C1_Witness ==
    /\ pc = "proxy_branch"
    /\ tagQuery = "desktop"
    /\ img \in catalog
    /\ \E r \in catalog : ~TagsContain(r.Tags, tagQuery)

\* C2: a random-image request whose catalog lookup failed with a storage
\* error is answered with status 500.
C2_StorageErrorIs500 ==
    (pc = "done" /\ route \in RandomImageRoutes /\ err = ErrStorage)
        => w.status = StatusInternalServerError

\* C3: every answer of GET /random-image with status 200 carries the three
\* cache-suppression headers.
C3_StreamedNeverCached ==
    (route = "/random-image" /\ w.status = StatusOK)
        => /\ w.header.CacheControl = NoCacheValue
           /\ w.header.Pragma = "no-cache"
           /\ w.header.Expires = "0"

\* C4: GET /random-image opens and serves only files under the local root.
C4_LocalStaysUnderRoot ==
    route = "/random-image"
        => /\ \A p \in opened : IsUnder(localImagesPath, p)
           /\ w.body.kind = "file" => IsUnder(localImagesPath, w.body.path)

\* C5: when no record matches the request (no record holds the tag, or the
\* catalog is empty) and the store answers, chooseRandomImage fails with
\* not-found; both random-image handlers then answer 404 and end, having
\* opened no file and fetched nothing.
C5_NoMatchIs404 ==
    /\ [][(ChooseReturns /\ Candidates(catalog, tagQuery) = {} /\ err' # ErrStorage)
             => (err' = ErrNoMatch /\ pc' = "done" /\ w'.status = StatusNotFound)]_vars
    /\ []((route \in RandomImageRoutes /\ err = ErrNoMatch)
             => /\ pc = "done"
                /\ w.status = StatusNotFound
                /\ calls.get = 0 /\ calls.serve = 0 /\ opened = {})

\* C5 witness: a tagged request found no record in a catalog that is not empty.
C5_Witness ==
    /\ pc = "done"
    /\ route = "/random-image"
    /\ tagQuery = "mobile"
    /\ err = ErrNoMatch
    /\ catalog # {}

\* C6: once the origin has answered with a status other than 200, nothing of
\* its answer reaches the caller: no body byte, not its Content-Type, no relay
\* header; the request ends with 502.  And relay headers or body are written
\* only when the origin's status has been found to be 200.
C6_BadStatusIsBadGateway ==
    route = "/random-image" =>
        /\ (resp.got /\ resp.StatusCode # StatusOK) =>
              /\ w.body.kind # "upstream"
              /\ w.header.ContentType # resp.ContentType
              /\ w.header.CacheControl = ""
              /\ pc = "done" => (w.status = StatusBadGateway /\ w.body.kind = "error")
              /\ pc # "done" => w.status = 0
        /\ (w.body.kind = "upstream" \/ w.header.CacheControl # "") =>
              (resp.got /\ resp.StatusCode = StatusOK /\ pc \in {"proxy_copy", "done"})

\* C6 witness: the origin answered 404 and the request ended.
C6_Witness ==
    /\ pc = "done"
    /\ route = "/random-image"
    /\ resp.got
    /\ resp.StatusCode = 404

\* C7: when httpClient.Get fails, by the client's timeout or because no
\* connection could be made, GET /random-image ends with status 500 and a
\* plain-text error, no image content and no image Content-Type.
C7_FetchErrorIs500 ==
    (route = "/random-image" /\ err \in {"timeout", "connect"}) =>
        /\ pc = "done"
        /\ w.status = StatusInternalServerError
        /\ w.body.kind = "error"
        /\ w.header.ContentType = TextPlain

\* C7 witness: a fetch timed out.
C7_Witness == route = "/random-image" /\ err = "timeout" /\ calls.get = 1

\* C8, as claimed: no answer is shared by two classes of fetch failure.
C8_ClassesAllDistinct ==
    \A c1, c2 \in FailureClasses : c1 # c2 => seen[c1] \cap seen[c2] = {}

\* C8, amended: the answers to UpstreamStatus are shared with neither
\* UpstreamTimeout nor UpstreamError, and those two classes have one answer
\* between them.
C8_StatusDistinctFromFetchError ==
    /\ seen["UpstreamStatus"] \cap (seen["UpstreamTimeout"] \cup seen["UpstreamError"]) = {}
    /\ Cardinality(seen["UpstreamTimeout"] \cup seen["UpstreamError"]) <= 1
    /\ \A a \in seen["UpstreamStatus"] : a.status = StatusBadGateway /\ a.code # 0

\* C8 witness: every class of failure has been observed.
C8_Witness == \A c \in FailureClasses : seen[c] # {}

\* C9: a GET /random-image request calls chooseRandomImage at most once and
\* starts at most one delivery (one httpClient.Get or one http.ServeFile);
\* once anything has failed the request has ended.
C9_OnePickOneDelivery ==
    route = "/random-image" =>
        /\ calls.choose <= 1
        /\ calls.get + calls.serve <= 1
        /\ (err # Nil \/ w.status >= StatusBadRequest) => pc = "done"

\* C9 witness: the copy to the caller broke off after the one fetch.
C9_Witness ==
    /\ route = "/random-image"
    /\ err = "write_error"
    /\ calls.choose = 1
    /\ calls.get = 1

\* C10: no step of a request task of the three public handlers changes the
\* catalog, the id sequence or the files.
C10_PublicHandlersOnlyRead ==
    [][taskVars' # taskVars => UNCHANGED storeVars]_vars

\* C10 witness: a request was served from a catalog and a store that hold
\* something to change.
C10_Witness ==
    /\ pc = "done"
    /\ route = "/random-image"
    /\ w.status = StatusOK
    /\ catalog # {}
    /\ files # {}

\* Where a tag stands in the collation's order.
Rank(t) == CHOOSE i \in DOMAIN TagOrder : TagOrder[i] = t

\* C11: the sequence a successful GET /api/tags returns is strictly ascending
\* in the collation's order (so sorted and free of duplicates), holds every
\* tag of every record of the catalog as it is at the query, and holds no tag
\* that no record has.
C11_TagsSortedDistinctComplete ==
    [][(pc = "tags_query" /\ pc' = "done" /\ w'.status = StatusOK) =>
          LET ts == w'.body.tags
          IN  /\ w'.body.kind = "tags_json"
              /\ \A i, j \in DOMAIN ts : i < j => Rank(ts[i]) < Rank(ts[j])
              /\ \A r \in catalog : \A k \in DOMAIN r.Tags :
                    \E i \in DOMAIN ts : ts[i] = r.Tags[k]
              /\ \A i \in DOMAIN ts :
                    \E r \in catalog : \E k \in DOMAIN r.Tags : r.Tags[k] = ts[i]]_vars

\* C11 witness: two tags were listed from a catalog in which two records
\* share a tag.
C11_Witness ==
    /\ pc = "done"
    /\ route = "/api/tags"
    /\ w.status = StatusOK
    /\ Len(w.body.tags) = 2
    /\ \E r1, r2 \in catalog :
          r1 # r2 /\ \E t \in AllTags : TagsContain(r1.Tags, t) /\ TagsContain(r2.Tags, t)

\* C12: the body of a successful GET /api/tags is a JSON array, the empty
\* array when there is no tag, never another JSON value.
C12_TagsBodyIsArray ==
    (route = "/api/tags" /\ w.status = StatusOK)
        => (w.body.kind = "tags_json" /\ ~w.body.null)

\* C13: what GET /random-image asks for follows from the chosen record's
\* location alone.  A location that begins with "/local/" is handed, marker
\* stripped and joined to the local root, to http.ServeFile once, and nothing
\* is fetched; any other location is fetched by one httpClient.Get of that
\* very location, and no file is served or opened.
C13_BranchByLocation ==
    route = "/random-image" =>
        LET u == img.URL
            local == Len(u) >= 3 /\ u[1] = "" /\ u[2] = "local"
        IN  /\ \A a \in asked :
                  IF local
                  THEN /\ a.via = "ServeFile"
                       /\ a.target = filepathJoin(localImagesPath, SubSeq(u, 3, Len(u)))
                  ELSE /\ a.via = "Get"
                       /\ a.target = u
            /\ local => (calls.get = 0 /\ calls.serve <= 1)
            /\ ~local => (calls.serve = 0 /\ opened = {} /\ calls.get <= 1)
            /\ (pc = "done" /\ img # NoImage) =>
                  (Cardinality(asked) = 1 /\ calls.get + calls.serve = 1)

\* C13 witness: a local record was delivered by http.ServeFile.
C13_Witness ==
    /\ pc = "done"
    /\ img.URL = LocLocal
    /\ asked = {[via |-> "ServeFile", target |-> FileLocal]}

C15_ApiReturnsChosenRecord ==
    /\ [][(pc = "api_choose" /\ pc' = "done" /\ err' = Nil) =>
             /\ img' \in catalog
             /\ (tagQuery = "" \/ TagsContain(img'.Tags, tagQuery))
             /\ w'.status = StatusOK
             /\ w'.body.kind = "image_json"
             /\ w'.body.img = img']_vars
    /\ [](route = "/api/random-image" =>
             /\ calls.get = 0
             /\ calls.serve = 0
             /\ asked = {}
             /\ opened = {}
             /\ openBodies = 0)

\* C15 witness: the API answered with a tagged record chosen under a filter.
C15_Witness ==
    /\ pc = "done"
    /\ route = "/api/random-image"
    /\ tagQuery = "desktop"
    /\ w.status = StatusOK
    /\ w.body.img = img
    /\ img.Tags # <<>>

\* C17: the body of an upstream response is closed by the time the task ends,
\* whichever way the handler leaves: no body is open between tasks, and during
\* a task the one open body has its close deferred.
C17_BodyClosedAtEnd ==
    /\ pc = "idle" => openBodies = 0
    /\ openBodies = (IF resp.got THEN 1 ELSE 0)
    /\ resp.got => deferred = <<"resp.Body.Close">>

\* C17 witness: the handler is leaving on the bad-status path with the body
\* still open and its close deferred.
C17_Witness ==
    /\ pc = "done"
    /\ resp.got
    /\ w.status = StatusBadGateway
    /\ openBodies = 1
    /\ deferred = <<"resp.Body.Close">>

\* C16: after any sequence of imports, adds, edits and deletes, every record
\* of the catalog has a location that is not empty, and every id in the catalog
\* is one that was there before the step or the one the step assigned.
C16_LocationsNonEmptyIdsKept ==
    /\ [](\A r \in catalog : r.URL # <<"">>)
    /\ [][\A r \in catalog' :
             (\E q \in catalog : q.ID = r.ID) \/ (r.ID >= nextId /\ r.ID < nextId')]_vars

\* The routes that setupRoutes wraps in authMiddleware.
WrappedRoutes ==
    {"/admin", "/admin/add", "/admin/edit", "/admin/delete", "/admin/local_files",
     "/admin/download", "/admin/rename_file", "/admin/delete_file"}

\* C18: a wrapped handler runs exactly when the request's session_token is in
\* sessions at that moment; any other request is redirected with 302 to
\* /admin/login and changes neither catalog nor files.  A token enters
\* sessions only by a POST to /admin/login with the configured username and
\* password, a logout carrying a token takes it out, and a token that is out
\* never comes back.
C18_OnlySessionsPass ==
    /\ [][(pc = "idle" /\ pc' = "done" /\ route' \in WrappedRoutes) =>
             IF req'.cookie # 0 /\ req'.cookie \in sessions
             THEN calls'.next = 1
             ELSE /\ calls'.next = 0
                  /\ w'.status = StatusFound
                  /\ w'.header.Location = "/admin/login"
                  /\ UNCHANGED storeVars]_vars
    /\ [][\A t \in sessions' \ sessions :
             /\ route' = "/admin/login"
             /\ req'.method = "POST"
             /\ req'.username = adminUsername
             /\ req'.password = adminPassword
             /\ t = tokenCount + 1]_vars
    /\ [][(pc = "idle" /\ pc' = "done" /\ route' = "/admin/logout" /\ req'.cookie # 0) =>
             req'.cookie \notin sessions']_vars
    /\ [][\A t \in 1 .. tokenCount : t \notin sessions => t \notin sessions']_vars

\* C18 witness: a token that was handed out and logged out again was presented
\* to a wrapped route that writes, and the request was redirected.
C18_Witness ==
    /\ pc = "done"
    /\ route = "/admin/add"
    /\ req.method = "POST"
    /\ req.cookie # 0
    /\ req.cookie <= tokenCount
    /\ req.cookie \notin sessions
    /\ w.status = StatusFound
    /\ w.header.Location = "/admin/login"

\* C20: a request to /admin/rename_file or /admin/delete_file removes, moves
\* and creates only files under the local root, whatever the names given.
C20_FileOpsStayInRoot ==
    [][(pc = "idle" /\ pc' = "done"
          /\ route' \in {"/admin/rename_file", "/admin/delete_file"}) =>
          \A p \in (files \ files') \cup (files' \ files) :
              IsUnder(localImagesPath, p)]_vars

\* C19: while one task writes the sessions map (insert on login, delete on
\* logout), no other task is reading or writing it.
C19_MapAccessesExclusive ==
    \A t1, t2 \in Tasks :
        (t1 # t2 /\ acc[t1].op \in MapWrites) => acc[t2].op = "none"

\* C21: no two records of the catalog have the same url.  A POST to
\* /admin/add, or to /admin/edit for a record that exists, whose url another
\* record already has is answered 500 and leaves the catalog as it was; any
\* other such POST is redirected and leaves the url in the catalog at most
\* once.  At start-up initDB changes the catalog only when it is empty, and
\* takes each url of the file once.
C21_UrlsUnique ==
    /\ [](\A r1, r2 \in catalog : r1.URL = r2.URL => r1 = r2)
    /\ [][(pc = "idle" /\ pc' = "done" /\ route' = "/admin/add"
             /\ req'.method = "POST" /\ calls'.next = 1) =>
             IF \E r \in catalog : r.URL = req'.url
             THEN w'.status = StatusInternalServerError /\ catalog' = catalog
             ELSE /\ w'.status = StatusFound
                  /\ \E r \in catalog' \ catalog : r.URL = req'.url]_vars
    /\ [][(pc = "idle" /\ pc' = "done" /\ route' = "/admin/edit"
             /\ req'.method = "POST" /\ calls'.next = 1
             /\ \E r \in catalog : r.ID = req'.id) =>
             IF \E r \in catalog : r.ID # req'.id /\ r.URL = req'.url
             THEN w'.status = StatusInternalServerError /\ catalog' = catalog
             ELSE /\ w'.status = StatusFound
                  /\ \E r \in catalog' : r.ID = req'.id /\ r.URL = req'.url]_vars
    /\ [][(pc = "idle" /\ pc' = "idle" /\ catalog' # catalog) => catalog = {}]_vars

\* C21 witness: an add of a url that the import had put in the catalog was
\* answered 500.
C21_Witness ==
    /\ pc = "done"
    /\ route = "/admin/add"
    /\ req.method = "POST"
    /\ calls.next = 1
    /\ w.status = StatusInternalServerError
    /\ \E r \in catalog : r.URL = req.url /\ r.Tags = <<"Desktop">>

====
